---- MODULE Spec2Model ----
(***************************************************************************)
(* State-machine model of the coordinator contract                        *)
(* (src/coordinator-contract/src/lib.rs): the proposal lifecycle, the     *)
(* yield/resume continuation of the host, the codehash gate and the       *)
(* worker registry.                                                        *)
(*                                                                         *)
(* A call that panics (require!, expect, panic_str) is aborted by the      *)
(* host: none of its writes are persisted.  Every handler is modelled by   *)
(* an operator that computes the panic message in the order of the code    *)
(* ("" when the call runs to completion) and by an action that applies the *)
(* handler's writes only when no panic was raised.  The variable `last`    *)
(* holds the call whose receipt is being executed (name, caller,           *)
(* arguments, outcome) until the host completes the receipt, and `before`  *)
(* the state in which that receipt started; receipts are executed one at   *)
(* a time.                                                                 *)
(*                                                                         *)
(* The model starts from CoordinatorContract::new.  The redeploy entry     *)
(* points migrate and force_migrate (storage-schema migration) are not     *)
(* part of the modelled call surface.                                      *)
(***************************************************************************)
EXTENDS Naturals, Sequences, FiniteSets

\* ---------------------------------------------------------------- bounds
MaxProposals == 1
MaxBatch == 2
MaxTime == 1
MaxIds == 3
MaxLive == 2
MaxWorkers == 2

\* ------------------------------------------------------ program constants
MaxTextLen == 10000

\* ---------------------------------------------------------- input domains
Accounts == {"alice", "bob"}
InitialOwner == "alice"
Codehashes == {"c1"}
Checksums == {"k1"}
WorkerIds == {"w1", "w2"}
SubmissionHashes == {"r1"}
Times == 1..MaxTime
ProposalIds == 1..MaxProposals

RECURSIVE Repeat(_, _)
Repeat(s, n) ==
    IF n = 0 THEN ""
    ELSE IF n % 2 = 1 THEN s \o Repeat(s, n - 1)
    ELSE LET h == Repeat(s, n \div 2) IN h \o h

LongText == Repeat("x", MaxTextLen + 1)
FullText == Repeat("x", MaxTextLen)
Configs == {"cfg-A", "cfg-B", LongText}
ManifestoTexts == {"m1", LongText}
Results == {"final", "other"}

\* Option<T>: None is the empty sequence, Some(x) the one-element sequence.
None == << >>
Some(x) == << x >>
AccountOptions == {None}

\* ------------------------------------------------------------------ hash
\* SHA-256, hex encoded, tabulated on the strings of the input domains.
hash(data) ==
    CASE data = "cfg-A" -> "136d41410c6b23f1ac7dbb2ed227345110d5a83304b9f959b44eb6555c79c148"
      [] data = "cfg-B" -> "c142d17d1f72c7a01187453fc68ccb9ea10231cb1b4fef79cdf80c292471d77f"
      [] data = "final" -> "2443630b4620165c8b173e7265e17526fe2787ae594364dd6d839ad58f2fc007"
      [] data = "other" -> "d9298a10d1b0735837dc4bd85dac641b0f3cef27a47e5d53a54f2f3f5b2fcffa"
      [] data = "m1" -> "ca0df2c95aa144c1d0ff2ff3c8f967fdc1de9ef0c4120b3726416701b519d619"
      [] data = LongText -> "6e54d64dcefa6e734070adc72c1e29a67b369cd0d0a6a588578139c2672479cd"
      [] data = FullText -> "e4ee97ec252749d2096447e849628d0d7734f51700416eefbb33574bf0b3ee75"

ConfigHashClaims == {hash("cfg-A"), hash("cfg-B")}
ResultHashClaims == {hash("final"), hash("other")}

\* serde_json::to_vec(&String) and the callback's deserialisation of it.
json_to_vec(s) == "\"" \o s \o "\""
\* Variant that hands the callback the encoded bytes as the result.
json_from_slice_raw(b) == b

json_from_slice(b) == SubSeq(b, 2, Len(b) - 1)

\* ----------------------------------------------------------------- state
VARIABLES
    owner,                      \* AccountId
    approved_codehashes,        \* set of codehashes
    coordinator_by_account_id,  \* AccountId -> Worker {checksum, codehash}
    current_proposal_id,        \* u64
    proposals,                  \* proposal id -> Proposal
    proposal_keys,              \* iteration order of the proposals map
    manifesto,                  \* Option<Manifesto>
    registered_workers,         \* worker id -> RegisteredWorker
    yields,                     \* the host's yielded promises, by yield id
    last,                       \* the call of the receipt in execution
    before,                     \* the state in which that receipt started
    registry                    \* the state of the registry contract

contract == << owner, approved_codehashes, coordinator_by_account_id,
               current_proposal_id, proposals, proposal_keys, manifesto,
               registered_workers >>
vars == << owner, approved_codehashes, coordinator_by_account_id,
           current_proposal_id, proposals, proposal_keys, manifesto,
           registered_workers, yields, last, before, registry >>

\* The contract's state and the host's continuations, as one value.
Snapshot ==
    [ owner |-> owner,
      approved_codehashes |-> approved_codehashes,
      coordinator_by_account_id |-> coordinator_by_account_id,
      current_proposal_id |-> current_proposal_id,
      proposals |-> proposals,
      proposal_keys |-> proposal_keys,
      manifesto |-> manifesto,
      registered_workers |-> registered_workers,
      yields |-> yields,
      registry |-> registry ]

EmptyMap == [k \in {} |-> None]

Call(op, caller, args, err) == [op |-> op, caller |-> caller, args |-> args, err |-> err]
Idle == Call("idle", "", << >>, "")
\* #[private] callbacks are called by the contract account itself.
Contract == "contract"

\* ------------------------------------------------------ registry contract
\* DEFAULT_MIN_DEPOSIT, and every deposit, in units of 0.001 NEAR.
DEFAULT_MIN_DEPOSIT == 100

\* An IterableMap of the registry is its stored values, by key, and the key
\* vector that its iteration follows.  RegistryContract::new(admin) runs on
\* empty storage.
RegistryNew(admin) ==
    [ admin |-> admin,
      coordinators |-> EmptyMap,
      coordinator_keys |-> << >>,
      workers |-> EmptyMap,
      worker_keys |-> << >>,
      next_worker_id |-> 0,
      min_deposit |-> DEFAULT_MIN_DEPOSIT ]

\* CoordinatorContract::new(owner), RegistryContract::new(admin)
Init ==
    /\ owner = InitialOwner
    /\ approved_codehashes = {}
    /\ coordinator_by_account_id = EmptyMap
    /\ current_proposal_id = 0
    /\ proposals = EmptyMap
    /\ proposal_keys = << >>
    /\ manifesto = None
    /\ registered_workers = EmptyMap
    /\ yields = << >>
    /\ registry = RegistryNew(InitialOwner)
    /\ last = Idle
    /\ before = Snapshot

\* ------------------------------------------------------- map primitives
\* IterableMap::insert
MapInsert(m, k, v) == [x \in DOMAIN m \cup {k} |-> IF x = k THEN v ELSE m[x]]
\* IterableMap::remove
MapRemove(m, k) == [x \in DOMAIN m \ {k} |-> m[x]]

IndexOf(s, k) == CHOOSE i \in 1..Len(s) : s[i] = k
\* The key vector of an IterableMap: insert pushes a new key, remove is a
\* swap_remove (the last key takes the place of the removed one).
KeysInsert(s, k) == IF \E i \in 1..Len(s) : s[i] = k THEN s ELSE Append(s, k)
KeysRemove(s, k) ==
    IF ~ \E i \in 1..Len(s) : s[i] = k THEN s
    ELSE LET i == IndexOf(s, k)
             n == Len(s)
         IN [j \in 1..(n - 1) |-> IF j = i THEN s[n] ELSE s[j]]

\* ------------------------------------------------------ internal checks
OnlyOwner == "Only owner can call this function"
OnlyCoordinator == "Only registered coordinator can call this function"
NotApproved == "Coordinator codehash is no longer approved"

\* Variant that checks the caller against the owner given at construction.
require_owner_at_construction(caller) ==
    IF caller = InitialOwner THEN "" ELSE OnlyOwner

require_owner(caller) ==
    IF caller = owner THEN "" ELSE OnlyOwner

\* Variants of the gate with one of its two checks missing.
require_approved_codehash_binding_only(caller) ==
    IF caller \notin DOMAIN coordinator_by_account_id THEN OnlyCoordinator ELSE ""

require_approved_codehash_unbound_passes(caller) ==
    IF caller \notin DOMAIN coordinator_by_account_id THEN ""
    ELSE IF coordinator_by_account_id[caller].codehash \notin approved_codehashes
         THEN NotApproved
         ELSE ""

require_approved_codehash(caller) ==
    IF caller \notin DOMAIN coordinator_by_account_id THEN OnlyCoordinator
    ELSE IF coordinator_by_account_id[caller].codehash \notin approved_codehashes
         THEN NotApproved
         ELSE ""

\* ------------------------------------------------------------- manifesto
ManifestoTooLong == "Manifesto text needs to be under 10,000 characters"

set_manifesto_panic(caller, manifesto_text) ==
    IF require_owner(caller) # "" THEN require_owner(caller)
    ELSE IF Len(manifesto_text) > MaxTextLen THEN ManifestoTooLong
    ELSE ""

set_manifesto(caller, manifesto_text) ==
    LET err == set_manifesto_panic(caller, manifesto_text) IN
    /\ last = Idle
    /\ UNCHANGED << before, registry >>
    /\ last' = Call("set_manifesto", caller, [manifesto_text |-> manifesto_text], err)
    /\ manifesto' = IF err = ""
                    THEN Some([text |-> manifesto_text, hash |-> hash(manifesto_text)])
                    ELSE manifesto
    /\ UNCHANGED << owner, approved_codehashes, coordinator_by_account_id,
                    current_proposal_id, proposals, proposal_keys,
                    registered_workers, yields >>

\* ---------------------------------------------------- host: yield/resume
\* env::promise_yield_create: the host registers a continuation that will
\* call return_coordination_result(proposal_id, task_config) once, with the
\* resumed payload or with a timeout.  The yield id is the position of the
\* continuation in `yields`.
promise_yield_create(proposal_id, task_config) ==
    Append(yields, [proposal_id |-> proposal_id, task_config |-> task_config,
                    status |-> "pending", payload |-> ""])

\* Variant in which a later resume replaces the payload of a continuation
\* that was resumed and has not run yet.
promise_yield_resume_overwrites(yield_id, payload) ==
    IF yield_id \in DOMAIN yields /\ yields[yield_id].status \in {"pending", "resumed"}
    THEN [yields EXCEPT ![yield_id].status = "resumed", ![yield_id].payload = payload]
    ELSE yields

\* env::promise_yield_resume: only a continuation that is still pending
\* takes the payload; the boolean result is ignored by the caller.
promise_yield_resume(yield_id, payload) ==
    IF yield_id \in DOMAIN yields /\ yields[yield_id].status = "pending"
    THEN [yields EXCEPT ![yield_id].status = "resumed", ![yield_id].payload = payload]
    ELSE yields

\* ---------------------------------------------------- start_coordination
ManifestoNotSet == "Manifesto not set. Owner must set_manifesto first."
ConfigTooLong == "Task config needs to be under 10,000 characters"

\* Variant that also rejects a task_config of exactly the maximal length.
start_coordination_panic_strict(task_config) ==
    IF manifesto = None THEN ManifestoNotSet
    ELSE IF Len(task_config) >= MaxTextLen THEN ConfigTooLong
    ELSE ""

start_coordination_panic(task_config) ==
    IF manifesto = None THEN ManifestoNotSet
    ELSE IF Len(task_config) > MaxTextLen THEN ConfigTooLong
    ELSE ""

new_proposal(yield_id, task_config, requester, timestamp) ==
    [ yield_id |-> yield_id,
      task_config |-> task_config,
      config_hash |-> hash(task_config),
      timestamp |-> timestamp,
      requester |-> requester,
      state |-> "Created",
      worker_submissions |-> << >>,
      finalized_result |-> None ]

\* Variant that hands out the lowest id that names no stored proposal.
allocate_lowest_free_id ==
    CHOOSE i \in 1..(Cardinality(DOMAIN proposals) + 1) :
        /\ i \notin DOMAIN proposals
        /\ \A j \in 1..(i - 1) : j \in DOMAIN proposals

\* self.current_proposal_id += 1; let proposal_id = self.current_proposal_id;
allocate_proposal_id == current_proposal_id + 1

\* The call returns proposal_id, the value of current_proposal_id it leaves.
start_coordination(caller, task_config, now) ==
    LET err == start_coordination_panic(task_config)
        proposal_id == allocate_proposal_id
        yield_id == Len(yields) + 1
    IN
    /\ last = Idle
    /\ UNCHANGED << before, registry >>
    /\ last' = Call("start_coordination", caller, [task_config |-> task_config, now |-> now], err)
    /\ IF err = ""
       THEN /\ current_proposal_id' = proposal_id
            /\ yields' = promise_yield_create(proposal_id, task_config)
            /\ proposals' = MapInsert(proposals, proposal_id,
                                new_proposal(yield_id, task_config, caller, now))
            /\ proposal_keys' = KeysInsert(proposal_keys, proposal_id)
       ELSE UNCHANGED << current_proposal_id, yields, proposals, proposal_keys >>
    /\ UNCHANGED << owner, approved_codehashes, coordinator_by_account_id,
                    manifesto, registered_workers >>

\* --------------------------------------------- record_worker_submissions
NoProposal == "No proposal with this ID"
NotCreated == "Proposal not in Created state - cannot record submissions"
WorkerNotActive == "Worker is not registered or not active"
AlreadySubmitted == "Worker already submitted for this proposal"

\* Variant that accepts every registered worker, whatever its flag.
worker_is_registered(worker_id) ==
    worker_id \in DOMAIN registered_workers

\* self.registered_workers.get(&id).map(|w| w.active).unwrap_or(false)
worker_is_active(worker_id) ==
    IF worker_id \in DOMAIN registered_workers
    THEN registered_workers[worker_id].active
    ELSE FALSE

\* Variant without the nullifier check.
already_submitted_never(worker_submissions, worker_id) == FALSE

\* proposal.worker_submissions.iter().any(|s| s.worker_id == sub.worker_id)
already_submitted(worker_submissions, worker_id) ==
    \E k \in 1..Len(worker_submissions) : worker_submissions[k].worker_id = worker_id

\* Variant of the loop that skips an invalid entry instead of panicking.
RECURSIVE record_loop_skip(_, _, _, _)
record_loop_skip(submissions, i, acc, now) ==
    IF i > Len(submissions) THEN [err |-> "", worker_submissions |-> acc]
    ELSE LET sub == submissions[i] IN
         IF ~ worker_is_active(sub.worker_id) \/ already_submitted(acc, sub.worker_id)
         THEN record_loop_skip(submissions, i + 1, acc, now)
         ELSE record_loop_skip(submissions, i + 1,
                               Append(acc, [worker_id |-> sub.worker_id,
                                            result_hash |-> sub.result_hash,
                                            timestamp |-> now]),
                               now)

\* The for loop over the batch, from entry i on, with `acc` the proposal's
\* worker_submissions as pushed so far.  The result is the panic message
\* ("" if the loop completes) and the list at that point.
RECURSIVE record_loop(_, _, _, _)
record_loop(submissions, i, acc, now) ==
    IF i > Len(submissions) THEN [err |-> "", worker_submissions |-> acc]
    ELSE LET sub == submissions[i] IN
         IF ~ worker_is_active(sub.worker_id)
         THEN [err |-> WorkerNotActive, worker_submissions |-> acc]
         ELSE IF already_submitted(acc, sub.worker_id)
         THEN [err |-> AlreadySubmitted, worker_submissions |-> acc]
         ELSE record_loop(submissions, i + 1,
                          Append(acc, [worker_id |-> sub.worker_id,
                                       result_hash |-> sub.result_hash,
                                       timestamp |-> now]),
                          now)

\* Variant without the check of the proposal's state.
record_worker_submissions_panic_any_state(caller, proposal_id, submissions, now) ==
    IF require_approved_codehash(caller) # "" THEN require_approved_codehash(caller)
    ELSE IF proposal_id \notin DOMAIN proposals THEN NoProposal
    ELSE record_loop(submissions, 1,
                     proposals[proposal_id].worker_submissions, now).err

record_worker_submissions_panic(caller, proposal_id, submissions, now) ==
    IF require_approved_codehash(caller) # "" THEN require_approved_codehash(caller)
    ELSE IF proposal_id \notin DOMAIN proposals THEN NoProposal
    ELSE IF proposals[proposal_id].state # "Created" THEN NotCreated
    ELSE record_loop(submissions, 1,
                     proposals[proposal_id].worker_submissions, now).err

\* Variant that pushes the submissions and leaves the state tag alone.
record_apply_keeps_state(proposal, submissions, now) ==
    [proposal EXCEPT
        !.worker_submissions =
            record_loop(submissions, 1, proposal.worker_submissions, now).worker_submissions]

\* The writes of a call that ran to completion.
record_apply(proposal, submissions, now) ==
    [proposal EXCEPT
        !.worker_submissions =
            record_loop(submissions, 1, proposal.worker_submissions, now).worker_submissions,
        !.state = "WorkersCompleted"]

record_worker_submissions(caller, proposal_id, submissions, now) ==
    LET err == record_worker_submissions_panic(caller, proposal_id, submissions, now) IN
    /\ last = Idle
    /\ UNCHANGED << before, registry >>
    /\ last' = Call("record_worker_submissions", caller,
                  [proposal_id |-> proposal_id, submissions |-> submissions, now |-> now], err)
    /\ proposals' = IF err = ""
                    THEN [proposals EXCEPT ![proposal_id] = record_apply(@, submissions, now)]
                    ELSE proposals
    /\ UNCHANGED << owner, approved_codehashes, coordinator_by_account_id,
                    current_proposal_id, proposal_keys, manifesto,
                    registered_workers, yields >>

\* ---------------------------------------------------- coordinator_resume
NotWorkersCompleted ==
    "Proposal not in WorkersCompleted state - record worker submissions first"
ConfigHashMismatch == "Config hash mismatch - configuration was tampered with"
ResultHashMismatch == "Result hash mismatch - result integrity check failed"

\* Variants with one of the two hash checks missing.
coordinator_resume_panic_no_config_check(caller, proposal_id, aggregated_result, config_hash, result_hash) ==
    IF require_approved_codehash(caller) # "" THEN require_approved_codehash(caller)
    ELSE IF proposal_id \notin DOMAIN proposals THEN NoProposal
    ELSE IF proposals[proposal_id].state # "WorkersCompleted" THEN NotWorkersCompleted
    ELSE IF hash(aggregated_result) # result_hash THEN ResultHashMismatch
    ELSE ""

coordinator_resume_panic_no_result_check(caller, proposal_id, aggregated_result, config_hash, result_hash) ==
    IF require_approved_codehash(caller) # "" THEN require_approved_codehash(caller)
    ELSE IF proposal_id \notin DOMAIN proposals THEN NoProposal
    ELSE IF proposals[proposal_id].state # "WorkersCompleted" THEN NotWorkersCompleted
    ELSE IF proposals[proposal_id].config_hash # config_hash THEN ConfigHashMismatch
    ELSE ""

\* Variant without the check of the proposal's state.
coordinator_resume_panic_any_state(caller, proposal_id, aggregated_result, config_hash, result_hash) ==
    IF require_approved_codehash(caller) # "" THEN require_approved_codehash(caller)
    ELSE IF proposal_id \notin DOMAIN proposals THEN NoProposal
    ELSE IF proposals[proposal_id].config_hash # config_hash THEN ConfigHashMismatch
    ELSE IF hash(aggregated_result) # result_hash THEN ResultHashMismatch
    ELSE ""

coordinator_resume_panic(caller, proposal_id, aggregated_result, config_hash, result_hash) ==
    IF require_approved_codehash(caller) # "" THEN require_approved_codehash(caller)
    ELSE IF proposal_id \notin DOMAIN proposals THEN NoProposal
    ELSE IF proposals[proposal_id].state # "WorkersCompleted" THEN NotWorkersCompleted
    ELSE IF proposals[proposal_id].config_hash # config_hash THEN ConfigHashMismatch
    ELSE IF hash(aggregated_result) # result_hash THEN ResultHashMismatch
    ELSE ""

\* Variant that marks the proposal Finalized in the resuming call itself.
coordinator_resume_finalizes(caller, proposal_id, aggregated_result, config_hash, result_hash) ==
    LET err == coordinator_resume_panic(caller, proposal_id, aggregated_result,
                                        config_hash, result_hash) IN
    /\ last = Idle
    /\ UNCHANGED << before, registry >>
    /\ last' = Call("coordinator_resume", caller,
                  [proposal_id |-> proposal_id, aggregated_result |-> aggregated_result,
                   config_hash |-> config_hash, result_hash |-> result_hash], err)
    /\ yields' = IF err = ""
                 THEN promise_yield_resume(proposals[proposal_id].yield_id,
                                           json_to_vec(aggregated_result))
                 ELSE yields
    /\ proposals' = IF err = ""
                    THEN [proposals EXCEPT ![proposal_id].state = "Finalized",
                                           ![proposal_id].finalized_result =
                                               Some(aggregated_result)]
                    ELSE proposals
    /\ UNCHANGED << owner, approved_codehashes, coordinator_by_account_id,
                    current_proposal_id, proposal_keys, manifesto,
                    registered_workers >>

coordinator_resume(caller, proposal_id, aggregated_result, config_hash, result_hash) ==
    LET err == coordinator_resume_panic(caller, proposal_id, aggregated_result,
                                        config_hash, result_hash) IN
    /\ last = Idle
    /\ UNCHANGED << before, registry >>
    /\ last' = Call("coordinator_resume", caller,
                  [proposal_id |-> proposal_id, aggregated_result |-> aggregated_result,
                   config_hash |-> config_hash, result_hash |-> result_hash], err)
    /\ yields' = IF err = ""
                 THEN promise_yield_resume(proposals[proposal_id].yield_id,
                                           json_to_vec(aggregated_result))
                 ELSE yields
    /\ UNCHANGED contract

\* -------------------------------------------- return_coordination_result
\* Variant of the Ok branch that sets the state and forgets the result.
finalize_ok_no_result(proposal, result) ==
    [proposal EXCEPT !.state = "Finalized"]

\* Ok(result) branch
finalize_ok(proposal, result) ==
    [proposal EXCEPT !.state = "Finalized", !.finalized_result = Some(result)]

\* Variant of the Err branch that also resets the stored configuration.
finalize_timeout_resets_config(proposal) ==
    [proposal EXCEPT !.state = "TimedOut", !.task_config = "", !.config_hash = ""]

\* Variant of the Err branch that leaves the state tag as it is.
finalize_timeout_keeps_state(proposal) == proposal

\* Err(_) branch
finalize_timeout(proposal) ==
    [proposal EXCEPT !.state = "TimedOut"]

\* What the callback of yield y returns: PromiseOrValue::Value(result) in the
\* Ok branch, whether or not the proposal is stored, and no value but the
\* promise of fail_on_timeout in the Err branch.
callback_value(y) ==
    IF yields[y].status = "resumed"
    THEN Some(json_from_slice(yields[y].payload))
    ELSE None

\* Variant of the callback that stores a proposal again when it finds none.
return_coordination_result_recreates(y) ==
    LET proposal_id == yields[y].proposal_id IN
    /\ yields[y].status \in {"pending", "resumed"}
    /\ last = Idle
    /\ UNCHANGED << before, registry >>
    /\ last' = Call("return_coordination_result", Contract,
                  [proposal_id |-> proposal_id, yield_id |-> y,
                   response |-> yields[y].status,
                   returned |-> callback_value(y)], "")
    /\ IF yields[y].status = "resumed"
       THEN /\ proposals' =
                  IF proposal_id \in DOMAIN proposals
                  THEN [proposals EXCEPT ![proposal_id] =
                            finalize_ok(@, json_from_slice(yields[y].payload))]
                  ELSE MapInsert(proposals, proposal_id,
                           finalize_ok(new_proposal(y, yields[y].task_config, Contract, 1),
                                       json_from_slice(yields[y].payload)))
            /\ yields' = [yields EXCEPT ![y].status = "done"]
       ELSE /\ proposals' =
                  IF proposal_id \in DOMAIN proposals
                  THEN [proposals EXCEPT ![proposal_id] = finalize_timeout(@)]
                  ELSE MapInsert(proposals, proposal_id,
                           finalize_timeout(new_proposal(y, yields[y].task_config, Contract, 1)))
            /\ yields' = [yields EXCEPT ![y].status = "failing"]
    /\ UNCHANGED << owner, approved_codehashes, coordinator_by_account_id,
                    current_proposal_id, proposal_keys, manifesto,
                    registered_workers >>

\* The host invokes the callback of yield y once: with the payload when the
\* yield was resumed, with a timeout error while it is still pending.  After
\* a timeout the callback returns a promise for fail_on_timeout.
return_coordination_result(y) ==
    LET proposal_id == yields[y].proposal_id IN
    /\ yields[y].status \in {"pending", "resumed"}
    /\ last = Idle
    /\ UNCHANGED << before, registry >>
    /\ last' = Call("return_coordination_result", Contract,
                  [proposal_id |-> proposal_id, yield_id |-> y,
                   response |-> yields[y].status,
                   returned |-> callback_value(y)], "")
    /\ IF yields[y].status = "resumed"
       THEN /\ proposals' =
                  IF proposal_id \in DOMAIN proposals
                  THEN [proposals EXCEPT ![proposal_id] =
                            finalize_ok(@, json_from_slice(yields[y].payload))]
                  ELSE proposals
            /\ yields' = [yields EXCEPT ![y].status = "done"]
       ELSE /\ proposals' =
                  IF proposal_id \in DOMAIN proposals
                  THEN [proposals EXCEPT ![proposal_id] = finalize_timeout(@)]
                  ELSE proposals
            /\ yields' = [yields EXCEPT ![y].status = "failing"]
    /\ UNCHANGED << owner, approved_codehashes, coordinator_by_account_id,
                    current_proposal_id, proposal_keys, manifesto,
                    registered_workers >>

\* The promise returned after a timeout runs in a receipt of its own and
\* panics; the writes of the callback's receipt are already persisted.
TimedOutPanic == "Coordination request timed out"

\* Variant in which the panic also undoes the state change of the callback.
fail_on_timeout_rolls_back(y) ==
    LET proposal_id == yields[y].proposal_id IN
    /\ yields[y].status = "failing"
    /\ last = Idle
    /\ UNCHANGED << before, registry >>
    /\ last' = Call("fail_on_timeout", Contract, [yield_id |-> y], TimedOutPanic)
    /\ yields' = [yields EXCEPT ![y].status = "done"]
    /\ proposals' =
           IF proposal_id \in DOMAIN proposals
           THEN [proposals EXCEPT ![proposal_id].state =
                     IF proposals[proposal_id].worker_submissions = << >>
                     THEN "Created" ELSE "WorkersCompleted"]
           ELSE proposals
    /\ UNCHANGED << owner, approved_codehashes, coordinator_by_account_id,
                    current_proposal_id, proposal_keys, manifesto,
                    registered_workers >>

fail_on_timeout(y) ==
    /\ yields[y].status = "failing"
    /\ last = Idle
    /\ UNCHANGED << before, registry >>
    /\ last' = Call("fail_on_timeout", Contract, [yield_id |-> y], TimedOutPanic)
    /\ yields' = [yields EXCEPT ![y].status = "done"]
    /\ UNCHANGED contract

\* ---------------------------------------------------------- view functions
ProposalStates == {"Created", "WorkersCompleted", "Finalized", "TimedOut"}

\* self.proposals.get(&proposal_id).cloned()
get_proposal(proposal_id) ==
    IF proposal_id \in DOMAIN proposals THEN Some(proposals[proposal_id]) ELSE None

\* Iterator::take(n) followed by map and collect, on the ids that passed the
\* filter.
take_and_collect(ids, n) ==
    [i \in 1..(IF n < Len(ids) THEN n ELSE Len(ids)) |-> << ids[i], proposals[ids[i]] >>]

\* self.proposals.iter() visits the entries in the order of the key vector.
get_all_proposals(from_index, limit) ==
    LET from == IF from_index = None THEN 0 ELSE from_index[1]
        lim == IF limit = None THEN Len(proposal_keys) ELSE limit[1]
        keep(id) == id >= from
    IN take_and_collect(SelectSeq(proposal_keys, keep), lim)

get_proposals_by_state(state, from_index, limit) ==
    LET from == IF from_index = None THEN 0 ELSE from_index[1]
        lim == IF limit = None THEN Len(proposal_keys) ELSE limit[1]
        keep(id) == id >= from /\ proposals[id].state = state
    IN take_and_collect(SelectSeq(proposal_keys, keep), lim)

\* --------------------------------------------------------- owner functions
CodehashNotApproved == "Codehash not approved. Owner must approve_codehash first."

approve_codehash(caller, codehash) ==
    LET err == require_owner(caller) IN
    /\ last = Idle
    /\ UNCHANGED << before, registry >>
    /\ last' = Call("approve_codehash", caller, [codehash |-> codehash], err)
    /\ approved_codehashes' = IF err = ""
                              THEN approved_codehashes \cup {codehash}
                              ELSE approved_codehashes
    /\ UNCHANGED << owner, coordinator_by_account_id, current_proposal_id,
                    proposals, proposal_keys, manifesto, registered_workers, yields >>

\* view: is_codehash_approved
is_codehash_approved(codehash) == codehash \in approved_codehashes

\* Variant without the owner check.
register_coordinator_panic_any_caller(caller, codehash) ==
    IF codehash \notin approved_codehashes THEN CodehashNotApproved
    ELSE ""

register_coordinator_panic(caller, codehash) ==
    IF require_owner(caller) # "" THEN require_owner(caller)
    ELSE IF codehash \notin approved_codehashes THEN CodehashNotApproved
    ELSE ""

register_coordinator(caller, checksum, codehash) ==
    LET err == register_coordinator_panic(caller, codehash) IN
    /\ last = Idle
    /\ UNCHANGED << before, registry >>
    /\ last' = Call("register_coordinator", caller,
                  [checksum |-> checksum, codehash |-> codehash], err)
    /\ coordinator_by_account_id' =
           IF err = ""
           THEN MapInsert(coordinator_by_account_id, caller,
                          [checksum |-> checksum, codehash |-> codehash])
           ELSE coordinator_by_account_id
    /\ UNCHANGED << owner, approved_codehashes, current_proposal_id, proposals,
                    proposal_keys, manifesto, registered_workers, yields >>

remove_codehash(caller, codehash) ==
    LET err == require_owner(caller) IN
    /\ last = Idle
    /\ UNCHANGED << before, registry >>
    /\ last' = Call("remove_codehash", caller, [codehash |-> codehash], err)
    /\ approved_codehashes' = IF err = ""
                              THEN approved_codehashes \ {codehash}
                              ELSE approved_codehashes
    /\ UNCHANGED << owner, coordinator_by_account_id, current_proposal_id,
                    proposals, proposal_keys, manifesto, registered_workers, yields >>

clear_proposal(caller, proposal_id) ==
    LET err == require_owner(caller) IN
    /\ last = Idle
    /\ UNCHANGED << before, registry >>
    /\ last' = Call("clear_proposal", caller, [proposal_id |-> proposal_id], err)
    /\ IF err = ""
       THEN /\ proposals' = MapRemove(proposals, proposal_id)
            /\ proposal_keys' = KeysRemove(proposal_keys, proposal_id)
       ELSE UNCHANGED << proposals, proposal_keys >>
    /\ UNCHANGED << owner, approved_codehashes, coordinator_by_account_id,
                    current_proposal_id, manifesto, registered_workers, yields >>

transfer_ownership(caller, new_owner) ==
    LET err == require_owner(caller) IN
    /\ last = Idle
    /\ UNCHANGED << before, registry >>
    /\ last' = Call("transfer_ownership", caller, [new_owner |-> new_owner], err)
    /\ owner' = IF err = "" THEN new_owner ELSE owner
    /\ UNCHANGED << approved_codehashes, coordinator_by_account_id,
                    current_proposal_id, proposals, proposal_keys, manifesto,
                    registered_workers, yields >>

\* ------------------------------------------------------ worker registration
OnlyOwnerOrCoordinator == "Only owner or registered coordinator can register workers"
WorkerNotFound == "Worker not found"

register_worker_panic(caller) ==
    IF caller = owner \/ caller \in DOMAIN coordinator_by_account_id
    THEN ""
    ELSE OnlyOwnerOrCoordinator

\* Variant that leaves the record of a worker id already registered as it is.
register_worker_keeps_existing(caller, worker_id, account_id, now) ==
    LET err == register_worker_panic(caller) IN
    /\ last = Idle
    /\ UNCHANGED << before, registry >>
    /\ last' = Call("register_worker", caller,
                  [worker_id |-> worker_id, account_id |-> account_id, now |-> now], err)
    /\ registered_workers' =
           IF err = "" /\ worker_id \notin DOMAIN registered_workers
           THEN MapInsert(registered_workers, worker_id,
                          [worker_id |-> worker_id,
                           account_id |-> account_id,
                           registered_at |-> now,
                           registered_by |-> caller,
                           active |-> TRUE])
           ELSE registered_workers
    /\ UNCHANGED << owner, approved_codehashes, coordinator_by_account_id,
                    current_proposal_id, proposals, proposal_keys, manifesto, yields >>

register_worker(caller, worker_id, account_id, now) ==
    LET err == register_worker_panic(caller) IN
    /\ last = Idle
    /\ UNCHANGED << before, registry >>
    /\ last' = Call("register_worker", caller,
                  [worker_id |-> worker_id, account_id |-> account_id, now |-> now], err)
    /\ registered_workers' =
           IF err = ""
           THEN MapInsert(registered_workers, worker_id,
                          [worker_id |-> worker_id,
                           account_id |-> account_id,
                           registered_at |-> now,
                           registered_by |-> caller,
                           active |-> TRUE])
           ELSE registered_workers
    /\ UNCHANGED << owner, approved_codehashes, coordinator_by_account_id,
                    current_proposal_id, proposals, proposal_keys, manifesto, yields >>

remove_worker(caller, worker_id) ==
    LET err == require_owner(caller) IN
    /\ last = Idle
    /\ UNCHANGED << before, registry >>
    /\ last' = Call("remove_worker", caller, [worker_id |-> worker_id], err)
    /\ registered_workers' = IF err = ""
                             THEN MapRemove(registered_workers, worker_id)
                             ELSE registered_workers
    /\ UNCHANGED << owner, approved_codehashes, coordinator_by_account_id,
                    current_proposal_id, proposals, proposal_keys, manifesto, yields >>

\* Variant that also lets a caller through that passes the codehash gate.
set_active_panic_or_coordinator(caller, worker_id) ==
    IF require_owner(caller) # "" /\ require_approved_codehash(caller) # ""
    THEN require_owner(caller)
    ELSE IF worker_id \notin DOMAIN registered_workers THEN WorkerNotFound
    ELSE ""

set_active_panic(caller, worker_id) ==
    IF require_owner(caller) # "" THEN require_owner(caller)
    ELSE IF worker_id \notin DOMAIN registered_workers THEN WorkerNotFound
    ELSE ""

deactivate_worker(caller, worker_id) ==
    LET err == set_active_panic(caller, worker_id) IN
    /\ last = Idle
    /\ UNCHANGED << before, registry >>
    /\ last' = Call("deactivate_worker", caller, [worker_id |-> worker_id], err)
    /\ registered_workers' = IF err = ""
                             THEN [registered_workers EXCEPT ![worker_id].active = FALSE]
                             ELSE registered_workers
    /\ UNCHANGED << owner, approved_codehashes, coordinator_by_account_id,
                    current_proposal_id, proposals, proposal_keys, manifesto, yields >>

activate_worker(caller, worker_id) ==
    LET err == set_active_panic(caller, worker_id) IN
    /\ last = Idle
    /\ UNCHANGED << before, registry >>
    /\ last' = Call("activate_worker", caller, [worker_id |-> worker_id], err)
    /\ registered_workers' = IF err = ""
                             THEN [registered_workers EXCEPT ![worker_id].active = TRUE]
                             ELSE registered_workers
    /\ UNCHANGED << owner, approved_codehashes, coordinator_by_account_id,
                    current_proposal_id, proposals, proposal_keys, manifesto, yields >>

\* ------------------------------------------- registry contract: the calls
MinNameLen == 2
MaxNameLen == 64

MinDepositNotMet == "Minimum deposit is not attached"
NameLength == "Name must be 2-64 characters"
CoordinatorTaken == "Coordinator name already taken"
CoordinatorNotFound == "Coordinator not found"
CoordinatorNotActive == "Coordinator not found or not active"
WorkerIdCollision == "Worker ID collision"
RegistryWorkerNotFound == "Worker not found"
OnlyOwnerOrAdmin == "Only owner or admin"
OnlyAdmin == "Only admin can set min deposit"
OnlyOwnerOrAdminUpdate == "Only owner or admin can update"
InvalidYocto == "Invalid yocto amount"

\* Display of a u64: its decimal digits.
Digit(d) ==
    CASE d = 0 -> "0" [] d = 1 -> "1" [] d = 2 -> "2" [] d = 3 -> "3" [] d = 4 -> "4"
      [] d = 5 -> "5" [] d = 6 -> "6" [] d = 7 -> "7" [] d = 8 -> "8" [] d = 9 -> "9"

RECURSIVE u64_to_string(_)
u64_to_string(n) ==
    IF n < 10 THEN Digit(n) ELSE u64_to_string(n \div 10) \o Digit(n % 10)

\* format!("{}-{}", name, self.next_worker_id)
format_worker_id(name, n) == name \o "-" \o u64_to_string(n)

\* #[init(ignore_state)] migrate(admin): the state is built anew over the
\* same storage prefixes.  The new maps start with an empty key vector; the
\* values stored under the prefixes stay in storage.
registry_migrate(admin) ==
    /\ last = Idle
    /\ UNCHANGED << before, contract, yields >>
    /\ last' = Call("registry.migrate", Contract, [admin |-> admin], "")
    /\ registry' = [ RegistryNew(admin) EXCEPT
                        !.coordinators = registry.coordinators,
                        !.workers = registry.workers ]

\* str::parse::<u128> on the amounts of the input domain; amounts are counted
\* in units of 0.001 NEAR.
parse_u128(text) ==
    CASE text = "100" -> Some(100)
      [] text = "200" -> Some(200)
      [] OTHER -> None

registry_set_min_deposit_panic(caller, amount_yocto) ==
    IF caller # registry.admin THEN OnlyAdmin
    ELSE IF parse_u128(amount_yocto) = None THEN InvalidYocto
    ELSE ""

registry_set_min_deposit(caller, amount_yocto) ==
    LET err == registry_set_min_deposit_panic(caller, amount_yocto) IN
    /\ last = Idle
    /\ UNCHANGED << before, contract, yields >>
    /\ last' = Call("registry.set_min_deposit", caller,
                  [amount_yocto |-> amount_yocto], err)
    /\ registry' = IF err = ""
                   THEN [registry EXCEPT !.min_deposit = parse_u128(amount_yocto)[1]]
                   ELSE registry

registry_register_coordinator_panic(name, deposit) ==
    IF deposit < registry.min_deposit THEN MinDepositNotMet
    ELSE IF ~ (Len(name) >= MinNameLen /\ Len(name) <= MaxNameLen) THEN NameLength
    ELSE IF name \in DOMAIN registry.coordinators THEN CoordinatorTaken
    ELSE ""

registry_register_coordinator(caller, name, deposit, now) ==
    LET err == registry_register_coordinator_panic(name, deposit)
        entry == [ coordinator_id |-> name,
                   owner |-> caller,
                   contract_id |-> None,
                   phala_cvm_id |-> None,
                   ensue_configured |-> FALSE,
                   created_at |-> now,
                   active |-> TRUE ]
    IN
    /\ last = Idle
    /\ UNCHANGED << before, contract, yields >>
    /\ last' = Call("registry.register_coordinator", caller,
                  [name |-> name, deposit |-> deposit, now |-> now], err)
    /\ registry' =
           IF err = ""
           THEN [registry EXCEPT
                    !.coordinators = MapInsert(@, name, entry),
                    !.coordinator_keys = KeysInsert(@, name)]
           ELSE registry

registry_update_coordinator_panic(caller, name) ==
    IF name \notin DOMAIN registry.coordinators THEN CoordinatorNotFound
    ELSE IF ~ (caller = registry.coordinators[name].owner \/ caller = registry.admin)
         THEN OnlyOwnerOrAdminUpdate
    ELSE ""

registry_update_coordinator(caller, name, contract_id, phala_cvm_id, ensue_configured) ==
    LET err == registry_update_coordinator_panic(caller, name) IN
    /\ last = Idle
    /\ UNCHANGED << before, contract, yields >>
    /\ last' = Call("registry.update_coordinator", caller,
                  [name |-> name, contract_id |-> contract_id,
                   phala_cvm_id |-> phala_cvm_id,
                   ensue_configured |-> ensue_configured], err)
    /\ registry' =
           IF err = ""
           THEN [registry EXCEPT
                    !.coordinators[name].contract_id =
                        IF contract_id # None THEN contract_id ELSE @,
                    !.coordinators[name].phala_cvm_id =
                        IF phala_cvm_id # None THEN phala_cvm_id ELSE @,
                    !.coordinators[name].ensue_configured =
                        IF ensue_configured # None THEN ensue_configured[1] ELSE @]
           ELSE registry

registry_deactivate_coordinator_panic(caller, name) ==
    IF name \notin DOMAIN registry.coordinators THEN CoordinatorNotFound
    ELSE IF ~ (caller = registry.coordinators[name].owner \/ caller = registry.admin)
         THEN OnlyOwnerOrAdmin
    ELSE ""

registry_deactivate_coordinator(caller, name) ==
    LET err == registry_deactivate_coordinator_panic(caller, name) IN
    /\ last = Idle
    /\ UNCHANGED << before, contract, yields >>
    /\ last' = Call("registry.deactivate_coordinator", caller, [name |-> name], err)
    /\ registry' = IF err = ""
                   THEN [registry EXCEPT !.coordinators[name].active = FALSE]
                   ELSE registry

\* Variant without the collision check.
registry_register_worker_panic_no_collision_check(name, coordinator_id, deposit) ==
    IF deposit < registry.min_deposit THEN MinDepositNotMet
    ELSE IF ~ (Len(name) >= MinNameLen /\ Len(name) <= MaxNameLen) THEN NameLength
    ELSE IF /\ coordinator_id # None
            /\ ~ ( /\ coordinator_id[1] \in DOMAIN registry.coordinators
                   /\ registry.coordinators[coordinator_id[1]].active )
         THEN CoordinatorNotActive
    ELSE ""

registry_register_worker_panic(name, coordinator_id, deposit) ==
    IF deposit < registry.min_deposit THEN MinDepositNotMet
    ELSE IF ~ (Len(name) >= MinNameLen /\ Len(name) <= MaxNameLen) THEN NameLength
    ELSE IF format_worker_id(name, registry.next_worker_id + 1) \in DOMAIN registry.workers
         THEN WorkerIdCollision
    ELSE IF /\ coordinator_id # None
            /\ ~ ( /\ coordinator_id[1] \in DOMAIN registry.coordinators
                   /\ registry.coordinators[coordinator_id[1]].active )
         THEN CoordinatorNotActive
    ELSE ""

\* The call returns the entry it stores.
registry_register_worker(caller, name, coordinator_id, deposit, now) ==
    LET err == registry_register_worker_panic(name, coordinator_id, deposit)
        n == registry.next_worker_id + 1
        worker_id == format_worker_id(name, n)
        entry == [ worker_id |-> worker_id,
                   owner |-> caller,
                   coordinator_id |-> coordinator_id,
                   phala_cvm_id |-> None,
                   nova_group_id |-> None,
                   created_at |-> now,
                   active |-> TRUE ]
    IN
    /\ last = Idle
    /\ UNCHANGED << before, contract, yields >>
    /\ last' = Call("registry.register_worker", caller,
                  [name |-> name, coordinator_id |-> coordinator_id,
                   deposit |-> deposit, now |-> now], err)
    /\ registry' =
           IF err = ""
           THEN [registry EXCEPT
                    !.next_worker_id = n,
                    !.workers = MapInsert(@, worker_id, entry),
                    !.worker_keys = KeysInsert(@, worker_id)]
           ELSE registry

registry_update_worker_panic(caller, worker_id) ==
    IF worker_id \notin DOMAIN registry.workers THEN RegistryWorkerNotFound
    ELSE IF ~ (caller = registry.workers[worker_id].owner \/ caller = registry.admin)
         THEN OnlyOwnerOrAdminUpdate
    ELSE ""

registry_update_worker(caller, worker_id, phala_cvm_id, nova_group_id, coordinator_id) ==
    LET err == registry_update_worker_panic(caller, worker_id) IN
    /\ last = Idle
    /\ UNCHANGED << before, contract, yields >>
    /\ last' = Call("registry.update_worker", caller,
                  [worker_id |-> worker_id, phala_cvm_id |-> phala_cvm_id,
                   nova_group_id |-> nova_group_id,
                   coordinator_id |-> coordinator_id], err)
    /\ registry' =
           IF err = ""
           THEN [registry EXCEPT
                    !.workers[worker_id].phala_cvm_id =
                        IF phala_cvm_id # None THEN phala_cvm_id ELSE @,
                    !.workers[worker_id].nova_group_id =
                        IF nova_group_id # None THEN nova_group_id ELSE @,
                    !.workers[worker_id].coordinator_id =
                        IF coordinator_id # None THEN coordinator_id ELSE @]
           ELSE registry

registry_deactivate_worker_panic(caller, worker_id) ==
    IF worker_id \notin DOMAIN registry.workers THEN RegistryWorkerNotFound
    ELSE IF ~ (caller = registry.workers[worker_id].owner \/ caller = registry.admin)
         THEN OnlyOwnerOrAdmin
    ELSE ""

registry_deactivate_worker(caller, worker_id) ==
    LET err == registry_deactivate_worker_panic(caller, worker_id) IN
    /\ last = Idle
    /\ UNCHANGED << before, contract, yields >>
    /\ last' = Call("registry.deactivate_worker", caller, [worker_id |-> worker_id], err)
    /\ registry' = IF err = ""
                   THEN [registry EXCEPT !.workers[worker_id].active = FALSE]
                   ELSE registry

\* ------------------------------------------------------------ the system
SubmissionInputs == [worker_id : WorkerIds, result_hash : SubmissionHashes]
Batches == UNION { [1..n -> SubmissionInputs] : n \in 0..MaxBatch }

\* The host completes the receipt; the next call can be executed.
receipt_done ==
    /\ last # Idle
    /\ last' = Idle
    /\ before' = Snapshot
    /\ UNCHANGED << contract, yields, registry >>

Next ==
    \/ receipt_done
    \/ \E caller \in Accounts, text \in ManifestoTexts : set_manifesto(caller, text)
    \/ \E caller \in Accounts, cfg \in Configs, now \in Times :
           /\ current_proposal_id < MaxProposals
           /\ start_coordination(caller, cfg, now)
    \/ \E caller \in Accounts, id \in ProposalIds, batch \in Batches, now \in Times :
           record_worker_submissions(caller, id, batch, now)
    \/ \E caller \in Accounts, id \in ProposalIds, res \in Results,
          ch \in ConfigHashClaims, rh \in ResultHashClaims :
           coordinator_resume(caller, id, res, ch, rh)
    \/ \E y \in DOMAIN yields : return_coordination_result(y)
    \/ \E y \in DOMAIN yields : fail_on_timeout(y)
    \/ \E caller \in Accounts, c \in Codehashes : approve_codehash(caller, c)
    \/ \E caller \in Accounts, k \in Checksums, c \in Codehashes :
           register_coordinator(caller, k, c)
    \/ \E caller \in Accounts, c \in Codehashes : remove_codehash(caller, c)
    \/ \E caller \in Accounts, id \in ProposalIds : clear_proposal(caller, id)
    \/ \E caller \in Accounts, new_owner \in Accounts : transfer_ownership(caller, new_owner)
    \/ \E caller \in Accounts, w \in WorkerIds, a \in AccountOptions, now \in Times :
           register_worker(caller, w, a, now)
    \/ \E caller \in Accounts, w \in WorkerIds : remove_worker(caller, w)
    \/ \E caller \in Accounts, w \in WorkerIds : deactivate_worker(caller, w)
    \/ \E caller \in Accounts, w \in WorkerIds : activate_worker(caller, w)

Spec == Init /\ [][Next]_vars

\* ------------------------------------------------- the allocation of ids
\* The calls that create, time out and remove proposals, with up to MaxIds
\* proposals started.
IssuableIds == 1..MaxIds
ConfigsOfIds == {"cfg-A", FullText, LongText}

NextIds ==
    \/ receipt_done
    \/ \E caller \in Accounts, text \in ManifestoTexts : set_manifesto(caller, text)
    \/ \E caller \in Accounts, cfg \in ConfigsOfIds, now \in Times :
           /\ current_proposal_id < MaxIds
           /\ start_coordination(caller, cfg, now)
    \/ \E y \in DOMAIN yields : return_coordination_result(y)
    \/ \E y \in DOMAIN yields : fail_on_timeout(y)
    \/ \E caller \in Accounts, id \in IssuableIds : clear_proposal(caller, id)

SpecIds == Init /\ [][NextIds]_vars

\* ------------------------------------------- the host's delivery guarantee
\* The lifecycle of up to MaxLive proposals, driven by the owner (who is
\* also the coordinator) and by the host.  The host completes every receipt
\* and invokes the callback of every continuation: with the payload once
\* the continuation was resumed, with a timeout at the latest at its
\* timeout horizon, whatever other calls keep arriving.
LiveIds == 1..MaxLive
LiveBatches == UNION { [1..n -> SubmissionInputs] : n \in 0..1 }

NextLive ==
    \/ receipt_done
    \/ set_manifesto(InitialOwner, "m1")
    \/ \E c \in Codehashes : approve_codehash(InitialOwner, c)
    \/ \E k \in Checksums, c \in Codehashes : register_coordinator(InitialOwner, k, c)
    \/ \E now \in Times : register_worker(InitialOwner, "w1", None, now)
    \/ \E now \in Times :
           /\ current_proposal_id < MaxLive
           /\ start_coordination(InitialOwner, "cfg-A", now)
    \/ \E id \in LiveIds, batch \in LiveBatches, now \in Times :
           record_worker_submissions(InitialOwner, id, batch, now)
    \/ \E id \in LiveIds, res \in Results, rh \in ResultHashClaims :
           coordinator_resume(InitialOwner, id, res, hash("cfg-A"), rh)
    \/ \E y \in DOMAIN yields : return_coordination_result(y)
    \/ \E y \in DOMAIN yields : fail_on_timeout(y)
    \/ \E id \in LiveIds : clear_proposal(InitialOwner, id)

HostDelivers ==
    /\ WF_vars(receipt_done)
    /\ \A y \in LiveIds :
           SF_vars(y \in DOMAIN yields /\ return_coordination_result(y))

SpecLive == Init /\ [][NextLive]_vars /\ HostDelivers

\* The calls of the registry contract, with at most MaxWorkers worker
\* entries in storage.
WorkerNames == {"x", "ab", "ab-1", Repeat("n", MaxNameLen + 1)}
CoordinatorNames == {"dao"}
CoordinatorIdOptions == {None} \cup { Some(c) : c \in CoordinatorNames }
Deposits == {DEFAULT_MIN_DEPOSIT, 2 * DEFAULT_MIN_DEPOSIT}
YoctoAmounts == {"100", "200", "1e3"}
CvmIdOptions == {None, Some("cvm-1")}

NextRegistry ==
    \/ receipt_done
    \/ \E admin \in Accounts : registry_migrate(admin)
    \/ \E caller \in Accounts, amount_yocto \in YoctoAmounts :
           registry_set_min_deposit(caller, amount_yocto)
    \/ \E caller \in Accounts, name \in CoordinatorNames, deposit \in Deposits,
          now \in Times :
           registry_register_coordinator(caller, name, deposit, now)
    \/ \E caller \in Accounts, name \in CoordinatorNames,
          ensue_configured \in {None, Some(TRUE)} :
           registry_update_coordinator(caller, name, None, None, ensue_configured)
    \/ \E caller \in Accounts, name \in CoordinatorNames :
           registry_deactivate_coordinator(caller, name)
    \/ \E caller \in Accounts, name \in WorkerNames, c \in CoordinatorIdOptions,
          deposit \in Deposits, now \in Times :
           /\ Cardinality(DOMAIN registry.workers) < MaxWorkers
           /\ registry_register_worker(caller, name, c, deposit, now)
    \/ \E caller \in Accounts, w \in DOMAIN registry.workers,
          phala_cvm_id \in CvmIdOptions :
           registry_update_worker(caller, w, phala_cvm_id, None, None)
    \/ \E caller \in Accounts, w \in DOMAIN registry.workers \cup {"ab"} :
           registry_deactivate_worker(caller, w)

SpecRegistry == Init /\ [][NextRegistry]_vars

\* =================================================================== claims
\* A state with last # Idle is the state right after the writes of the call
\* `last`, and `before` is the state in which that call started.
StoredIds == DOMAIN proposals
IsCall(op) == last.op = op
GatedOps == {"record_worker_submissions", "coordinator_resume"}
Unchanged == Snapshot = before
KeptIds == (DOMAIN before.proposals) \cap (DOMAIN proposals)

\* ------------------------------------------------------------------- C1
StateChange(id) == << before.proposals[id].state, proposals[id].state >>

PathOfSpec ==
    { << "Created", "WorkersCompleted" >>,
      << "WorkersCompleted", "Finalized" >>,
      << "WorkersCompleted", "TimedOut" >> }

\* C1 as stated: whatever the call, a proposal's state changes only along
\* Created -> WorkersCompleted -> Finalized or
\* Created -> WorkersCompleted -> TimedOut; in particular Created is left
\* only for WorkersCompleted.
C1_OnlySpecPath ==
    \A id \in KeptIds :
        proposals[id].state # before.proposals[id].state
            => StateChange(id) \in PathOfSpec

\* C1 amended: a proposal's state changes only by Created -> WorkersCompleted,
\* WorkersCompleted -> Finalized, WorkersCompleted -> TimedOut or, when the
\* host's timeout arrives before any submissions were recorded,
\* Created -> TimedOut; Finalized and TimedOut are never left.
C1_OnlyLifecycleSteps ==
    \A id \in KeptIds :
        proposals[id].state # before.proposals[id].state
            => StateChange(id) \in PathOfSpec \cup { << "Created", "TimedOut" >> }

C1_Witness ==
    /\ IsCall("return_coordination_result")
    /\ last.args.response = "resumed"
    /\ last.args.proposal_id \in KeptIds
    /\ StateChange(last.args.proposal_id) = << "WorkersCompleted", "Finalized" >>

\* ------------------------------------------------------------------- C2
\* C2: in every reachable state every proposal's worker_submissions holds at
\* most one entry per worker_id.
C2_NullifierUnique ==
    \A id \in StoredIds :
        LET ws == proposals[id].worker_submissions IN
        \A i, j \in 1..Len(ws) : ws[i].worker_id = ws[j].worker_id => i = j

C2_Witness ==
    /\ IsCall("record_worker_submissions")
    /\ last.err = ""
    /\ Len(proposals[last.args.proposal_id].worker_submissions) = 2

\* ------------------------------------------------------------------- C3
\* Entry i of a batch for proposal id names a worker that, in the state in
\* which the call started, is unregistered, inactive, already recorded for
\* the proposal, or that is repeated earlier in the batch.
InvalidEntry(submissions, i, id) ==
    LET w == submissions[i].worker_id IN
    \/ w \notin DOMAIN before.registered_workers
    \/ ~ before.registered_workers[w].active
    \/ /\ id \in DOMAIN before.proposals
       /\ \E k \in 1..Len(before.proposals[id].worker_submissions) :
              before.proposals[id].worker_submissions[k].worker_id = w
    \/ \E j \in 1..(i - 1) : submissions[j].worker_id = w

\* C3: a record_worker_submissions call whose batch holds an invalid entry
\* fails, and a failed call leaves the proposals, and the rest of the
\* state, exactly as they were before the call.
C3_AllOrNothing ==
    IsCall("record_worker_submissions") =>
        /\ (\E i \in 1..Len(last.args.submissions) :
                InvalidEntry(last.args.submissions, i, last.args.proposal_id))
              => last.err # ""
        /\ last.err # "" => (proposals = before.proposals /\ Unchanged)

C3_Witness ==
    /\ IsCall("record_worker_submissions")
    /\ last.err \in {WorkerNotActive, AlreadySubmitted}
    /\ Len(last.args.submissions) = 2
    /\ worker_is_active(last.args.submissions[1].worker_id)
    /\ proposals[last.args.proposal_id].state = "Created"
    /\ proposals[last.args.proposal_id].worker_submissions = << >>

\* ------------------------------------------------------------------- C4
\* C4: a coordinator_resume call on a proposal in WorkersCompleted with a
\* config_hash other than the stored one fails and resumes no continuation,
\* whatever result and result_hash it carries.
C4_ConfigHashChecked ==
    ( /\ IsCall("coordinator_resume")
      /\ last.args.proposal_id \in DOMAIN before.proposals
      /\ before.proposals[last.args.proposal_id].state = "WorkersCompleted"
      /\ last.args.config_hash # before.proposals[last.args.proposal_id].config_hash )
        => (last.err # "" /\ yields = before.yields)

C4_Witness ==
    /\ IsCall("coordinator_resume")
    /\ last.err = ConfigHashMismatch
    /\ last.args.result_hash = hash(last.args.aggregated_result)
    /\ yields[proposals[last.args.proposal_id].yield_id].status = "pending"

\* ------------------------------------------------------------------- C5
\* C5: a coordinator_resume call whose result_hash is not the hash of its
\* aggregated_result fails and resumes no continuation.
C5_ResultHashChecked ==
    ( /\ IsCall("coordinator_resume")
      /\ last.args.result_hash # hash(last.args.aggregated_result) )
        => (last.err # "" /\ yields = before.yields)

C5_Witness ==
    /\ IsCall("coordinator_resume")
    /\ last.err = ResultHashMismatch
    /\ last.args.config_hash = proposals[last.args.proposal_id].config_hash

\* ------------------------------------------------------------------- C6
\* C6: remove_codehash leaves the caller-binding map untouched, and a
\* record_worker_submissions or coordinator_resume call by a caller whose
\* binding names a codehash that is not in the approved set fails.
C6_RevocationImmediate ==
    /\ IsCall("remove_codehash")
           => coordinator_by_account_id = before.coordinator_by_account_id
    /\ ( /\ last.op \in GatedOps
         /\ last.caller \in DOMAIN before.coordinator_by_account_id
         /\ before.coordinator_by_account_id[last.caller].codehash
                \notin before.approved_codehashes )
           => (last.err # "" /\ Unchanged)

\* A bound caller's codehash was approved when the binding was made, so
\* this outcome is only seen after a remove_codehash.
C6_Witness ==
    /\ last.op \in GatedOps
    /\ last.err = NotApproved
    /\ last.caller \in DOMAIN coordinator_by_account_id

\* ------------------------------------------------------------------- C7
\* C7: a successful record_worker_submissions or coordinator_resume call
\* comes from a caller with a binding whose codehash is approved at the
\* time of the call, and a caller without a binding is rejected by the gate
\* (whether or not the proposal exists) with nothing changed.
C7_TwoLayerGate ==
    last.op \in GatedOps =>
        /\ last.err = "" =>
               /\ last.caller \in DOMAIN before.coordinator_by_account_id
               /\ before.coordinator_by_account_id[last.caller].codehash
                      \in before.approved_codehashes
        /\ last.caller \notin DOMAIN before.coordinator_by_account_id =>
               (last.err = OnlyCoordinator /\ Unchanged)

C7_Witness ==
    /\ last.op \in GatedOps
    /\ last.caller \notin DOMAIN coordinator_by_account_id
    /\ last.args.proposal_id \notin StoredIds
    /\ last.err = OnlyCoordinator

\* ------------------------------------------------------------------- C8
\* C8: for every stored proposal, finalized_result is set iff the state is
\* Finalized.
C8_ResultIffFinalized ==
    \A id \in StoredIds :
        (proposals[id].finalized_result # None) <=> (proposals[id].state = "Finalized")

C8_Witness ==
    \E id \in StoredIds :
        /\ proposals[id].state = "Finalized"
        /\ proposals[id].finalized_result = Some("final")
        /\ last = Idle

\* ------------------------------------------------------------------- C9
\* C9: a proposal in Created has no worker submissions.
C9_CreatedHasNoSubmissions ==
    \A id \in StoredIds :
        proposals[id].state = "Created" => proposals[id].worker_submissions = << >>

C9_Witness ==
    \E id \in StoredIds :
        /\ proposals[id].state = "WorkersCompleted"
        /\ Len(proposals[id].worker_submissions) = 1
        /\ IsCall("record_worker_submissions")
        /\ last.err = ""

\* ------------------------------------------------------------------ C10
\* C10: no call changes task_config, config_hash, yield_id, requester or
\* timestamp of a proposal that stays stored.
C10_CreationFieldsFrozen ==
    \A id \in KeptIds :
        /\ proposals[id].task_config = before.proposals[id].task_config
        /\ proposals[id].config_hash = before.proposals[id].config_hash
        /\ proposals[id].yield_id = before.proposals[id].yield_id
        /\ proposals[id].requester = before.proposals[id].requester
        /\ proposals[id].timestamp = before.proposals[id].timestamp

C10_Witness ==
    \E id \in KeptIds :
        /\ IsCall("return_coordination_result")
        /\ last.args.proposal_id = id
        /\ StateChange(id) = << "WorkersCompleted", "TimedOut" >>
        /\ proposals[id].config_hash = hash("cfg-B")

\* ------------------------------------------------------------------ C11
\* C11: a coordinator_resume call, failed or not, leaves every field of
\* every proposal as it was (a successful one leaves the proposal in
\* WorkersCompleted with no finalized_result); a proposal reaches Finalized
\* or TimedOut, and gets its finalized_result, only in the finalize callback.
C11_ResumeLeavesProposals ==
    /\ IsCall("coordinator_resume") =>
           /\ proposals = before.proposals
           /\ proposal_keys = before.proposal_keys
           /\ last.err = "" =>
                  /\ proposals[last.args.proposal_id].state = "WorkersCompleted"
                  /\ proposals[last.args.proposal_id].finalized_result = None
    /\ \A id \in KeptIds :
           ( \/ proposals[id].finalized_result # before.proposals[id].finalized_result
             \/ /\ proposals[id].state # before.proposals[id].state
                /\ proposals[id].state \in {"Finalized", "TimedOut"} )
               => IsCall("return_coordination_result")

C11_Witness ==
    /\ IsCall("coordinator_resume")
    /\ last.err = ""
    /\ before.yields[proposals[last.args.proposal_id].yield_id].status = "pending"
    /\ yields[proposals[last.args.proposal_id].yield_id].status = "resumed"
    /\ proposals[last.args.proposal_id].state = "WorkersCompleted"

\* ------------------------------------------------------------------ C12
\* C12: a record_worker_submissions call on a proposal that is unknown or
\* not in Created, and a coordinator_resume call on a proposal that is
\* unknown or not in WorkersCompleted, fail and leave the whole state as it
\* was.  A successful record_worker_submissions call takes its proposal
\* from Created to WorkersCompleted, no call takes a proposal back to
\* Created and no id is issued again, so at most one such call succeeds
\* per proposal.
C12_OutOfOrderFails ==
    /\ ( /\ IsCall("record_worker_submissions")
         /\ \/ last.args.proposal_id \notin DOMAIN before.proposals
            \/ before.proposals[last.args.proposal_id].state # "Created" )
           => (last.err # "" /\ Unchanged)
    /\ ( /\ IsCall("coordinator_resume")
         /\ \/ last.args.proposal_id \notin DOMAIN before.proposals
            \/ before.proposals[last.args.proposal_id].state # "WorkersCompleted" )
           => (last.err # "" /\ Unchanged)
    /\ (IsCall("record_worker_submissions") /\ last.err = "")
           => /\ before.proposals[last.args.proposal_id].state = "Created"
              /\ proposals[last.args.proposal_id].state = "WorkersCompleted"
    /\ \A id \in KeptIds :
           proposals[id].state = "Created" => before.proposals[id].state = "Created"
    /\ \A id \in StoredIds \ DOMAIN before.proposals : id > before.current_proposal_id

C12_Witness ==
    /\ IsCall("record_worker_submissions")
    /\ last.err = NotCreated
    /\ before.proposals[last.args.proposal_id].state = "WorkersCompleted"
    /\ Len(last.args.submissions) = 1
    /\ worker_is_active(last.args.submissions[1].worker_id)
    /\ ~ already_submitted(proposals[last.args.proposal_id].worker_submissions,
                           last.args.submissions[1].worker_id)

\* ------------------------------------------------------------------ C13
\* The continuation of proposal id, in the state in which the call started.
YieldBefore(id) == before.yields[before.proposals[id].yield_id]

\* A coordinator_resume call on proposal id succeeded before this call: the
\* continuation holds its payload, delivered to the callback or not yet.
ResumedBefore(id) ==
    \/ YieldBefore(id).status = "resumed"
    \/ YieldBefore(id).status = "done" /\ YieldBefore(id).payload # ""

\* C13 as stated: a coordinator_resume call on a proposal on which an
\* earlier coordinator_resume call succeeded fails, whether or not the
\* finalize callback has run in between.
C13_EveryLaterResumeFails ==
    ( /\ IsCall("coordinator_resume")
      /\ last.args.proposal_id \in DOMAIN before.proposals
      /\ ResumedBefore(last.args.proposal_id) )
        => last.err # ""

\* C13 amended: a coordinator_resume call on a proposal on which an earlier
\* coordinator_resume call succeeded changes nothing, the continuation's
\* payload included; it fails once the finalize callback has run (the
\* proposal is no longer in WorkersCompleted), and before that it is checked
\* like the first call.
C13_LaterResumeHasNoEffect ==
    ( /\ IsCall("coordinator_resume")
      /\ last.args.proposal_id \in DOMAIN before.proposals
      /\ ResumedBefore(last.args.proposal_id) )
        => /\ Unchanged
           /\ YieldBefore(last.args.proposal_id).status = "done" => last.err # ""
           /\ YieldBefore(last.args.proposal_id).status = "resumed" =>
                  last.err = coordinator_resume_panic(last.caller,
                                 last.args.proposal_id, last.args.aggregated_result,
                                 last.args.config_hash, last.args.result_hash)

C13_Witness ==
    /\ IsCall("coordinator_resume")
    /\ last.args.proposal_id \in DOMAIN before.proposals
    /\ YieldBefore(last.args.proposal_id).status = "done"
    /\ YieldBefore(last.args.proposal_id).payload = json_to_vec("final")
    /\ last.args.aggregated_result = "other"
    /\ last.err = NotWorkersCompleted

\* ------------------------------------------------------------------ C14
\* The call `last` is a coordinator_resume call on the proposal of
\* continuation y that passed the config_hash and the result_hash check and
\* handed the host its aggregated_result for y.
CheckedResumeOf(y) ==
    /\ IsCall("coordinator_resume")
    /\ last.err = ""
    /\ last.args.proposal_id \in DOMAIN before.proposals
    /\ before.proposals[last.args.proposal_id].yield_id = y
    /\ before.yields[y].proposal_id = last.args.proposal_id
    /\ before.proposals[last.args.proposal_id].config_hash = last.args.config_hash
    /\ hash(last.args.aggregated_result) = last.args.result_hash
    /\ yields[y].payload = json_to_vec(last.args.aggregated_result)

\* C14: a continuation gets a payload only from a coordinator_resume call on
\* its proposal that passed both hash checks, the payload being that call's
\* aggregated_result; and a Finalized proposal's finalized_result is the
\* result carried by the payload of its continuation, which has run.  So
\* finalized_result is the aggregated_result of such a call, and no
\* proposal is Finalized without one.
C14_FinalizedFromCheckedResume ==
    /\ \A y \in DOMAIN yields :
           IF y \in DOMAIN before.yields
           THEN yields[y].payload # before.yields[y].payload => CheckedResumeOf(y)
           ELSE yields[y].payload = ""
    /\ \A id \in StoredIds :
           proposals[id].state = "Finalized" =>
               LET y == yields[proposals[id].yield_id] IN
               /\ y.proposal_id = id
               /\ y.status = "done"
               /\ \E r \in Results :
                      /\ y.payload = json_to_vec(r)
                      /\ proposals[id].finalized_result = Some(r)

C14_Witness ==
    /\ IsCall("return_coordination_result")
    /\ last.args.response = "resumed"
    /\ last.args.proposal_id \in StoredIds
    /\ before.yields[last.args.yield_id].payload = json_to_vec("other")
    /\ proposals[last.args.proposal_id].state = "Finalized"
    /\ proposals[last.args.proposal_id].finalized_result = Some("other")

\* ------------------------------------------------------------------ C15
\* The call bound last.caller to {checksum, codehash} and left the other
\* bindings alone.
BoundCaller ==
    /\ DOMAIN coordinator_by_account_id =
           DOMAIN before.coordinator_by_account_id \cup {last.caller}
    /\ coordinator_by_account_id[last.caller] =
           [checksum |-> last.args.checksum, codehash |-> last.args.codehash]
    /\ \A a \in DOMAIN before.coordinator_by_account_id \ {last.caller} :
           coordinator_by_account_id[a] = before.coordinator_by_account_id[a]

\* C15 as stated: for any caller, register_coordinator succeeds exactly when
\* the codehash is approved at the time of the call, and then binds the
\* caller to {checksum, codehash}; otherwise it fails and leaves the binding
\* map as it was.
C15_AnyCallerRegisters ==
    IsCall("register_coordinator") =>
        /\ last.err = "" <=> last.args.codehash \in before.approved_codehashes
        /\ last.err = "" => BoundCaller
        /\ last.err # "" => coordinator_by_account_id = before.coordinator_by_account_id

\* C15 amended: register_coordinator is an owner call.  It succeeds exactly
\* when the caller is the owner and the codehash is approved at the time of
\* the call, and then binds the caller to {checksum, codehash}; a call by
\* any other account fails with the owner error whether or not the codehash
\* is approved, and a failed call leaves the whole state as it was.
C15_OwnerRegisters ==
    IsCall("register_coordinator") =>
        /\ last.err = "" <=> ( /\ last.caller = before.owner
                               /\ last.args.codehash \in before.approved_codehashes )
        /\ last.caller # before.owner => last.err = OnlyOwner
        /\ last.err = "" => BoundCaller
        /\ last.err # "" => Unchanged

C15_Witness ==
    /\ IsCall("register_coordinator")
    /\ last.caller # owner
    /\ last.args.codehash \in approved_codehashes
    /\ last.err = OnlyOwner
    /\ last.caller \notin DOMAIN coordinator_by_account_id

\* ------------------------------------------------------------------ C16
\* The caller of `last` was, when the call started, bound to a codehash
\* that was approved.
ApprovedCoordinatorBefore ==
    /\ last.caller \in DOMAIN before.coordinator_by_account_id
    /\ before.coordinator_by_account_id[last.caller].codehash
           \in before.approved_codehashes

\* C16 as stated: register_worker succeeds only for the owner or for a
\* caller bound to a codehash that is approved at the time of the call; a
\* call by anyone else, a caller whose bound codehash was removed included,
\* fails and leaves the worker registry as it was.
C16_OnlyOwnerOrApprovedCoordinator ==
    IsCall("register_worker") =>
        /\ last.err = "" => (last.caller = before.owner \/ ApprovedCoordinatorBefore)
        /\ last.err # "" => registered_workers = before.registered_workers

\* ------------------------------------------------------------------ C17
SetActiveOps == {"deactivate_worker", "activate_worker"}

\* The call set the active flag of its worker, and nothing else in the
\* registry: to FALSE for deactivate_worker, to TRUE for activate_worker.
FlagSet ==
    registered_workers =
        [before.registered_workers EXCEPT
            ![last.args.worker_id].active = (last.op = "activate_worker")]

\* C17 as stated: a deactivate_worker or activate_worker call on a
\* registered worker by the owner or by a caller bound to a currently
\* approved codehash succeeds and sets the worker's active flag.
C17_CoordinatorSetsActive ==
    ( /\ last.op \in SetActiveOps
      /\ last.caller = before.owner \/ ApprovedCoordinatorBefore
      /\ last.args.worker_id \in DOMAIN before.registered_workers )
        => (last.err = "" /\ FlagSet)

\* C17 amended: deactivate_worker and activate_worker are owner calls.  A
\* call succeeds exactly when the caller is the owner and the worker is
\* registered, and then sets the worker's active flag and nothing else; a
\* call by any other account, an approved coordinator included, fails with
\* the owner error, and a failed call leaves the whole state as it was.
C17_OwnerSetsActive ==
    last.op \in SetActiveOps =>
        /\ last.err = "" <=> ( /\ last.caller = before.owner
                               /\ last.args.worker_id \in DOMAIN before.registered_workers )
        /\ last.caller # before.owner => last.err = OnlyOwner
        /\ last.err = "" => FlagSet
        /\ last.err # "" => Unchanged

C17_Witness ==
    /\ last.op \in SetActiveOps
    /\ last.caller # owner
    /\ ApprovedCoordinatorBefore
    /\ last.args.worker_id \in DOMAIN registered_workers
    /\ last.err = OnlyOwner

\* ------------------------------------------------------------------ C18
\* Worker w was in the registry with its active flag set when the call
\* started.
ActiveBefore(w) ==
    /\ w \in DOMAIN before.registered_workers
    /\ before.registered_workers[w].active

\* Entry i of the batch names a worker that has no entry yet for proposal
\* id, neither recorded before the call nor earlier in the batch.
NotYetSubmitted(submissions, i, id) ==
    /\ \A k \in 1..Len(before.proposals[id].worker_submissions) :
           before.proposals[id].worker_submissions[k].worker_id # submissions[i].worker_id
    /\ \A j \in 1..(i - 1) : submissions[j].worker_id # submissions[i].worker_id

\* C18: a record_worker_submissions call by an approved coordinator on a
\* proposal in Created is accepted if and only if every entry names a worker
\* that is in the registry with active = TRUE at the time of the call and
\* has not yet submitted; it is rejected as not active exactly for a worker
\* that is missing from the registry or has the flag off.  Nothing else about
\* the worker (who registered it, when, or what its flag was earlier) is
\* looked at; register_worker leaves the flag on and remove_worker takes the
\* worker out of the registry.
C18_OnlyCurrentActiveFlag ==
    /\ ( /\ IsCall("record_worker_submissions")
         /\ ApprovedCoordinatorBefore
         /\ last.args.proposal_id \in DOMAIN before.proposals
         /\ before.proposals[last.args.proposal_id].state = "Created" )
           => LET subs == last.args.submissions
                  id == last.args.proposal_id
              IN /\ last.err = "" <=>
                        \A i \in 1..Len(subs) :
                            /\ ActiveBefore(subs[i].worker_id)
                            /\ NotYetSubmitted(subs, i, id)
                 /\ last.err = WorkerNotActive <=>
                        \E i \in 1..Len(subs) :
                            /\ ~ ActiveBefore(subs[i].worker_id)
                            /\ \A j \in 1..(i - 1) :
                                   /\ ActiveBefore(subs[j].worker_id)
                                   /\ NotYetSubmitted(subs, j, id)
    /\ (IsCall("register_worker") /\ last.err = "")
           => registered_workers[last.args.worker_id].active
    /\ (IsCall("remove_worker") /\ last.err = "")
           => last.args.worker_id \notin DOMAIN registered_workers

\* A registered worker whose flag is off was deactivated after its
\* registration; its submission is rejected.
C18_Witness ==
    /\ IsCall("record_worker_submissions")
    /\ last.err = WorkerNotActive
    /\ Len(last.args.submissions) = 1
    /\ last.args.submissions[1].worker_id \in DOMAIN registered_workers
    /\ ~ registered_workers[last.args.submissions[1].worker_id].active
    /\ proposals[last.args.proposal_id].state = "Created"

\* ------------------------------------------------------------------ C19
\* clear_proposal by the owner on a stored proposal succeeds and removes it,
\* whatever its state, and leaves the other proposals alone.
ClearRemovesStored ==
    ( /\ IsCall("clear_proposal")
      /\ last.caller = before.owner
      /\ last.args.proposal_id \in DOMAIN before.proposals )
        => /\ last.err = ""
           /\ StoredIds = DOMAIN before.proposals \ {last.args.proposal_id}
           /\ \A id \in StoredIds : proposals[id] = before.proposals[id]

\* clear_proposal by the owner on an id with no stored proposal fails.
ClearOfMissingFails ==
    ( /\ IsCall("clear_proposal")
      /\ last.caller = before.owner
      /\ last.args.proposal_id \notin DOMAIN before.proposals )
        => last.err # ""

\* C19 as stated: clear_proposal by the owner removes the proposal whatever
\* its state, and fails with an error on an id that has no stored proposal.
C19_ClearRemovesOrFails ==
    ClearRemovesStored /\ ClearOfMissingFails

\* ------------------------------------------------------------------ C20
\* The ids handed out by the successful start_coordination calls that were
\* made before the call `last`: each of them passed its id to the host as
\* the argument of the continuation it created.
IssuedBefore == { before.yields[k].proposal_id : k \in DOMAIN before.yields }

\* C20: a successful start_coordination call returns an id that is greater
\* than every id returned before (so it was never returned before) and that
\* names no stored proposal, also when earlier proposals were removed by
\* clear_proposal; the ids issued are pairwise distinct and increasing; a
\* failed start_coordination call and every other call leave the id counter
\* as it was.
C20_IdsNeverReused ==
    /\ (IsCall("start_coordination") /\ last.err = "")
           => /\ \A i \in IssuedBefore : current_proposal_id > i
              /\ current_proposal_id \notin DOMAIN before.proposals
              /\ StoredIds = DOMAIN before.proposals \cup {current_proposal_id}
              /\ Len(yields) = Len(before.yields) + 1
              /\ yields[Len(yields)].proposal_id = current_proposal_id
    /\ (IsCall("start_coordination") /\ last.err # "") => Unchanged
    /\ ~ (IsCall("start_coordination") /\ last.err = "")
           => /\ current_proposal_id = before.current_proposal_id
              /\ Len(yields) = Len(before.yields)
              /\ StoredIds \subseteq DOMAIN before.proposals
    /\ \A j, k \in DOMAIN yields :
           j < k => yields[j].proposal_id < yields[k].proposal_id
    /\ \A id \in StoredIds : id <= current_proposal_id

\* A third id is issued after the proposal with the second id was removed.
C20_Witness ==
    /\ IsCall("start_coordination")
    /\ last.err = ""
    /\ current_proposal_id = 3
    /\ StoredIds = {1, 3}
    /\ before.manifesto = manifesto

\* ------------------------------------------------------------------ C21
\* C21: start_coordination fails exactly when no manifesto is set or the
\* task_config is longer than 10,000, and a failed call changes nothing (no
\* proposal, same current_proposal_id).  Otherwise, whoever the caller is,
\* it stores under the next id, which it returns, a new proposal in Created
\* with the caller as requester, the config and its hash, no worker
\* submissions and no finalized_result, and touches no other proposal.
C21_StartCreatesOrFails ==
    IsCall("start_coordination") =>
        /\ last.err # "" <=>
               (before.manifesto = None \/ Len(last.args.task_config) > 10000)
        /\ last.err # "" => Unchanged
        /\ last.err = "" =>
               /\ current_proposal_id = before.current_proposal_id + 1
               /\ StoredIds = DOMAIN before.proposals \cup {current_proposal_id}
               /\ \A id \in DOMAIN before.proposals :
                      proposals[id] = before.proposals[id]
               /\ proposals[current_proposal_id].state = "Created"
               /\ proposals[current_proposal_id].worker_submissions = << >>
               /\ proposals[current_proposal_id].finalized_result = None
               /\ proposals[current_proposal_id].requester = last.caller
               /\ proposals[current_proposal_id].task_config = last.args.task_config
               /\ proposals[current_proposal_id].config_hash = hash(last.args.task_config)

\* A task_config of exactly 10,000 from an account that is not the owner.
C21_Witness ==
    /\ IsCall("start_coordination")
    /\ last.err = ""
    /\ last.caller # owner
    /\ Len(last.args.task_config) = 10000
    /\ current_proposal_id = 2

\* ------------------------------------------------------------------ C22
\* C22: the finalize callback run with a timeout for a stored proposal
\* completes and leaves the proposal TimedOut with no finalized_result; the
\* fail_on_timeout call that follows panics and changes nothing in the
\* contract, so the proposal, if still stored, is TimedOut after it; and no
\* call takes a proposal out of TimedOut.
C22_TimedOutPersists ==
    /\ ( /\ IsCall("return_coordination_result")
         /\ last.args.response = "pending"
         /\ last.args.proposal_id \in DOMAIN before.proposals )
           => /\ last.err = ""
              /\ proposals[last.args.proposal_id].state = "TimedOut"
              /\ proposals[last.args.proposal_id].finalized_result = None
    /\ IsCall("fail_on_timeout")
           => /\ last.err = TimedOutPanic
              /\ proposals = before.proposals
              /\ yields[last.args.yield_id].proposal_id \in StoredIds
                     => proposals[yields[last.args.yield_id].proposal_id].state
                            = "TimedOut"
    /\ \A id \in KeptIds :
           before.proposals[id].state = "TimedOut"
               => /\ proposals[id].state = "TimedOut"
                  /\ proposals[id].finalized_result = None

C22_Witness ==
    /\ IsCall("fail_on_timeout")
    /\ yields[last.args.yield_id].proposal_id \in StoredIds
    /\ proposals[yields[last.args.yield_id].proposal_id].state = "TimedOut"
    /\ Len(proposals[yields[last.args.yield_id].proposal_id].worker_submissions) = 1

\* ------------------------------------------------------------------ C23
Terminal == {"Finalized", "TimedOut"}
Delivered == {"failing", "done"}

\* The callback of a continuation runs only while the continuation is
\* pending or resumed and leaves it delivered, a delivered continuation
\* stays delivered, and the callback touches no proposal but the one named
\* by its continuation, which names it back.
CallbackAtMostOnce ==
    /\ IsCall("return_coordination_result")
           => /\ before.yields[last.args.yield_id].status \notin Delivered
              /\ yields[last.args.yield_id].status \in Delivered
              /\ \A id \in KeptIds \ {last.args.proposal_id} :
                     proposals[id] = before.proposals[id]
              /\ last.args.proposal_id \in StoredIds
                     => proposals[last.args.proposal_id].yield_id = last.args.yield_id
    /\ \A y \in DOMAIN before.yields :
           before.yields[y].status \in Delivered => yields[y].status \in Delivered

\* C23: when the host invokes the callback of every continuation, once,
\* every stored proposal is eventually Finalized, TimedOut or purged, and
\* the callback changes a proposal at most once.
C23_EveryProposalEnds ==
    /\ [] CallbackAtMostOnce
    /\ \A id \in LiveIds :
           (id \in StoredIds)
               ~> (id \notin StoredIds \/ proposals[id].state \in Terminal)

C23_Witness ==
    /\ IsCall("return_coordination_result")
    /\ last.args.proposal_id = 2
    /\ 2 \in KeptIds
    /\ StateChange(2) = << "Created", "TimedOut" >>
    /\ 1 \in StoredIds
    /\ proposals[1].state = "WorkersCompleted"

\* ------------------------------------------------------------------ C24
OwnerOps ==
    { "approve_codehash", "remove_codehash", "set_manifesto", "clear_proposal",
      "remove_worker", "transfer_ownership" }

\* C24: an approve_codehash, remove_codehash, set_manifesto, clear_proposal,
\* remove_worker or transfer_ownership call by an account that is not the
\* owner at the time of the call fails with the owner error and leaves the
\* whole state as it was; approve_codehash by the owner succeeds, and the
\* codehash is then reported as approved.
C24_OwnerGate ==
    /\ (last.op \in OwnerOps /\ last.caller # before.owner)
           => (last.err = OnlyOwner /\ Unchanged)
    /\ (IsCall("approve_codehash") /\ last.caller = before.owner)
           => /\ last.err = ""
              /\ is_codehash_approved(last.args.codehash)

\* The account that constructed the contract, after it gave ownership away.
C24_Witness ==
    /\ last.op \in OwnerOps
    /\ last.caller = InitialOwner
    /\ owner # InitialOwner
    /\ last.err = OnlyOwner

\* ------------------------------------------------------------------ C25
\* The ids of a finite set in ascending order.
RECURSIVE Ascending(_)
Ascending(ids) ==
    IF ids = {} THEN << >>
    ELSE LET least == CHOOSE i \in ids : \A j \in ids : i <= j
         IN << least >> \o Ascending(ids \ {least})

\* The page the claim describes: of the matching proposals with
\* id >= from_index, in ascending order of id, the first `limit`.
PageOfClaim(matching, from_index, limit) ==
    LET from == IF from_index = None THEN 0 ELSE from_index[1]
        ids == Ascending({ id \in matching : id >= from })
        lim == IF limit = None THEN Len(ids) ELSE limit[1]
    IN [i \in 1..(IF lim < Len(ids) THEN lim ELSE Len(ids)) |->
            << ids[i], proposals[ids[i]] >>]

Cursors == {None} \cup { Some(n) : n \in 0..(MaxIds + 1) }
Limits == {None} \cup { Some(n) : n \in 0..(MaxIds + 1) }

\* C25: for every from_index and limit, get_all_proposals and
\* get_proposals_by_state return the page the claim describes, in every
\* state reached by start_coordination and clear_proposal calls.
C25_PagesAscending ==
    \A from_index \in Cursors, limit \in Limits :
        /\ get_all_proposals(from_index, limit)
               = PageOfClaim(StoredIds, from_index, limit)
        /\ \A state \in ProposalStates :
               get_proposals_by_state(state, from_index, limit)
                   = PageOfClaim({ id \in StoredIds : proposals[id].state = state },
                                 from_index, limit)

\* The key vector is in ascending order, as it is while no proposal other
\* than the one started last was removed.
KeysAscending ==
    \A i, j \in 1..Len(proposal_keys) : i < j => proposal_keys[i] < proposal_keys[j]

\* The pages are as the claim describes whenever the key vector is ascending.
PagesAscendingWhileKeysAre == KeysAscending => C25_PagesAscending

\* ------------------------------------------------------------------ C26
\* C26 as stated: a record_worker_submissions call with an empty list fails
\* and does not move its proposal to WorkersCompleted, and every proposal in
\* WorkersCompleted or Finalized has at least one worker submission.
C26_NonEmptyBatchRequired ==
    /\ (IsCall("record_worker_submissions") /\ last.args.submissions = << >>)
           => (last.err # "" /\ proposals = before.proposals)
    /\ \A id \in StoredIds :
           proposals[id].state \in {"WorkersCompleted", "Finalized"}
               => Len(proposals[id].worker_submissions) >= 1

\* ------------------------------------------------------------------ C27
IssuedWorkerIds == DOMAIN registry.workers

\* C27: a successful register_worker call of the registry increments the
\* counter by one and stores, and returns, an entry under the id name-N with
\* N the new value of the counter; that id named no worker entry before; the
\* call leaves every existing worker entry as it was; a failed call changes
\* nothing.  No call removes a worker entry, so the stored ids are all the
\* ids ever issued, and each is the worker_id of its entry.
C27_WorkerIdsDistinct ==
    /\ IsCall("registry.register_worker") =>
           /\ last.err = "" =>
                  LET id == format_worker_id(last.args.name, registry.next_worker_id) IN
                  /\ registry.next_worker_id = before.registry.next_worker_id + 1
                  /\ id \notin DOMAIN before.registry.workers
                  /\ IssuedWorkerIds = DOMAIN before.registry.workers \cup {id}
                  /\ registry.workers[id].worker_id = id
                  /\ registry.workers[id].owner = last.caller
                  /\ \A w \in DOMAIN before.registry.workers :
                         registry.workers[w] = before.registry.workers[w]
           /\ last.err # "" => Unchanged
    /\ DOMAIN before.registry.workers \subseteq IssuedWorkerIds
    /\ \A w \in IssuedWorkerIds : registry.workers[w].worker_id = w

\* The name of the second worker is the id of the first.
C27_Witness ==
    /\ IsCall("registry.register_worker")
    /\ last.err = ""
    /\ last.args.name = "ab-1"
    /\ "ab-1" \in DOMAIN before.registry.workers
    /\ "ab-1-2" \in IssuedWorkerIds

\* ------------------------------------------------------------------ C28
\* C28: a successful register_worker call of the coordinator contract
\* stores a fresh record under the worker id, also when the id was registered
\* before: the record names the caller and the time of this call and has
\* active = true, and the records of the other workers stay as they were.  A
\* caller that holds a coordinator binding succeeds, so a worker that was
\* deactivated counts as active for record_worker_submissions afterwards,
\* with no activate_worker call.
C28_RegisterOverwrites ==
    IsCall("register_worker") =>
        /\ last.caller \in DOMAIN before.coordinator_by_account_id => last.err = ""
        /\ last.err = "" =>
               /\ DOMAIN registered_workers =
                      DOMAIN before.registered_workers \cup {last.args.worker_id}
               /\ registered_workers[last.args.worker_id] =
                      [worker_id |-> last.args.worker_id,
                       account_id |-> last.args.account_id,
                       registered_at |-> last.args.now,
                       registered_by |-> last.caller,
                       active |-> TRUE]
               /\ worker_is_active(last.args.worker_id)
               /\ \A w \in DOMAIN before.registered_workers \ {last.args.worker_id} :
                      registered_workers[w] = before.registered_workers[w]

\* A bound caller that is not the owner registers again a worker that
\* another account registered and that was deactivated.
C28_Witness ==
    /\ IsCall("register_worker")
    /\ last.err = ""
    /\ last.caller # before.owner
    /\ last.caller \in DOMAIN before.coordinator_by_account_id
    /\ last.args.worker_id \in DOMAIN before.registered_workers
    /\ ~ before.registered_workers[last.args.worker_id].active
    /\ before.registered_workers[last.args.worker_id].registered_by # last.caller
    /\ worker_is_active(last.args.worker_id)

\* ------------------------------------------------------------------ C29
\* C29: when the callback of a continuation runs after clear_proposal has
\* removed its proposal, it stores nothing: the proposal map and its key
\* vector are as before the call, get_proposal of the id is None, and the
\* call does not fail.  In the Ok branch it returns the result whose encoding
\* was handed to the continuation by coordinator_resume; in the Err branch
\* it returns no value, and the fail_on_timeout receipt that follows changes
\* no proposal either.
C29_CallbackAfterClear ==
    /\ ( /\ IsCall("return_coordination_result")
         /\ last.args.proposal_id \notin DOMAIN before.proposals )
           => /\ last.err = ""
              /\ proposals = before.proposals
              /\ proposal_keys = before.proposal_keys
              /\ get_proposal(last.args.proposal_id) = None
              /\ last.args.response = "resumed"
                     => /\ last.args.returned # None
                        /\ json_to_vec(last.args.returned[1])
                               = before.yields[last.args.yield_id].payload
              /\ last.args.response = "pending" => last.args.returned = None
    /\ ( /\ IsCall("fail_on_timeout")
         /\ yields[last.args.yield_id].proposal_id \notin DOMAIN before.proposals )
           => /\ proposals = before.proposals
              /\ proposal_keys = before.proposal_keys
              /\ get_proposal(yields[last.args.yield_id].proposal_id) = None

\* The Ok branch runs for proposal 1, resumed and then cleared, while
\* proposal 2 is stored.
C29_Witness ==
    /\ IsCall("return_coordination_result")
    /\ last.args.proposal_id = 1
    /\ last.args.response = "resumed"
    /\ get_proposal(1) = None
    /\ get_proposal(2) # None
    /\ last.args.returned \in { Some(r) : r \in Results }

====
